---- MODULE Spec2Model ----
(***************************************************************************)
(* StockaDoodle API server: the sale / undo / stock-adjustment core, the   *)
(* product, category and user requests around it, and the MFA service.     *)
(*                                                                         *)
(* The persisted database is the tuple <<stock, sales, metrics, log,       *)
(* users, categories, category_id>>.                                       *)
(* A request handler works on a session copy of it (SQLAlchemy's unit of   *)
(* work); db.session.commit() makes the copy the database and              *)
(* db.session.rollback() throws it away.                                   *)
(*                                                                         *)
(* Encodings: Python None is the empty tuple <<>> and a present value v is *)
(* <<v>> (total_amount, last_sale_date); a NULL integer column is 0        *)
(* (ProductLog.product_id, ProductLog.user_id).  A line item's price is    *)
(* carried through json.dumps untouched and read by no handler, so items   *)
(* are modelled as [product_id, quantity].                                 *)
(***************************************************************************)
EXTENDS Integers, Sequences, FiniteSets, TLC

\* ---------------------------------------------------------------- bounds
NumProducts == 2
MaxStock == 2
MaxQty == 2
MaxItems == 2
MaxSales == 2
MaxLog == 2
MaxTotal == 1
MaxDay == 3
MaxStreak == 2
NumWorkers == 2
ConcStock == 5
ConcQty == 3
MaxUsers == 4
NumCategories == 2
NumCodes == 2
MaxNow == 3
ExpiryMinutes == 1

ProductIds == 1..NumProducts
SaleIds == 1..MaxSales
Quantities == 0..MaxQty
Deltas == (-MaxQty..MaxQty) \ {0}
Days == 0..MaxDay
Workers == 1..NumWorkers
\* The users _seed_initial_data creates get ids 1..3 in order: the Admin has
\* no RetailerMetrics row, the Retailer has one.  A retailer_id or user_id of
\* 0 stands for a missing (falsy) id in the request.
AdminUser == 1
SeedRetailer == 3
\* the users that sell: the Admin's first sale finds no metrics row
Retailers == {AdminUser, SeedRetailer}
None == <<>>
\* declared totals: the code takes any number, one below zero included
Totals == {None} \cup {<<t>> : t \in (-1)..MaxTotal}
\* the totals declared in runs of several requests
SaleTotals == {<<-1>>, <<MaxTotal>>}
Items == [product_id : ProductIds, quantity : Quantities]
ItemSeqs == UNION {[1..n -> Items] : n \in 0..MaxItems}
\* non-empty requests of at most n line items whose quantities are all positive
ValidItemSeqsUpTo(n) ==
    UNION {[1..k -> {it \in Items : it.quantity > 0}] :
             k \in 1..(IF n < MaxItems THEN n ELSE MaxItems)}
\* exceptions the persistence layer can raise inside a handler's try block
Faults == {"none", "flush", "log", "commit"}
\* str(e) of those exceptions
FaultMsgs == {"flush failed", "log failed", "commit failed"}

VARIABLES
    stock,      \* Product rows: product id -> stock_level
    sales,      \* Sale rows: sale id -> [retailer_id, total_amount, items]
    metrics,    \* RetailerMetrics rows, in primary-key order
    log,        \* ProductLog rows, in insertion order
    users,      \* User rows: user id -> [username, role]
    categories, \* Category rows: category id -> name
    category_id, \* Product.category_id: product id -> category id (0: NULL)
    today,      \* date.today(), as a day number
    req,        \* the last request handled (and the fault it met)
    resp,       \* the response to it
    base,       \* history: per Sale row, the stock levels just before the
                \* sale, plus the net effect of every operation since
    sess,       \* per worker thread: the sale request it is executing and
                \* its SQLAlchemy session (identity map, pending rows)
    mfa,        \* MFAService._active_mfa_codes: username -> [code, expiry]
    now         \* datetime.now(), in minutes

vars == <<stock, sales, metrics, log, users, categories, category_id,
          today, req, resp, base, sess, mfa, now>>
mfavars == <<mfa, now>>
dbvars == <<stock, sales, metrics, log, users, categories, category_id>>

Database ==
    [stock |-> stock, sales |-> sales, metrics |-> metrics, log |-> log,
     users |-> users, categories |-> categories, category_id |-> category_id]

Range(f) == {f[x] : x \in DOMAIN f}
NoErr == [msg |-> "", pid |-> 0]
Err(m, p) == [msg |-> m, pid |-> p]
Response(op, status, err, sid) ==
    [op |-> op, status |-> status, err |-> err, sale_id |-> sid]

\* ------------------------------------------------------------ the session
\* db.session.commit(): the session's pending state becomes the database.
Commit(db, pending) == pending

\* (mutant) the pending state is written out instead of being discarded
Rollback_keeps(db, pending) == pending

\* db.session.rollback(): the pending state is discarded.
Rollback(db, pending) == db

\* (mutant) the except clause of record_atomic_sale without its rollback:
\* what the session flushed stays
sale_except_keeps(db, pending) == pending

\* except Exception: db.session.rollback() in record_atomic_sale
sale_except(db, pending) == Rollback(db, pending)

\* (mutant) the except clause of undo_sale without its rollback
undo_except_keeps(db, pending) == pending

\* except Exception: db.session.rollback() in undo_sale
undo_except(db, pending) == Rollback(db, pending)

\* ActivityLogger.log_product_action: one pending ProductLog row.
log_product_action(lg, product_id, user_id, action_type) ==
    Append(lg, [product_id |-> product_id, user_id |-> user_id,
                action_type |-> action_type])

\* ------------------------------------------------------ record_atomic_sale
\* (mutant) the decrement takes one unit whatever the quantity
SaleItem_one(st, it) ==
    LET pid == it.product_id
        qty == it.quantity
    IN  IF qty <= 0
          THEN [err |-> Err("Invalid quantity for product", pid), stock |-> st]
        ELSE IF pid \notin DOMAIN st
          THEN [err |-> Err("Product not found", pid), stock |-> st]
        ELSE IF st[pid] < qty
          THEN [err |-> Err("Insufficient stock for product", pid), stock |-> st]
        ELSE [err |-> NoErr, stock |-> [st EXCEPT ![pid] = @ - 1]]

\* (mutant) a loop body that looks the product up before it checks the quantity
SaleItem_lookupfirst(st, it) ==
    LET pid == it.product_id
        qty == it.quantity
    IN  IF pid \notin DOMAIN st
          THEN [err |-> Err("Product not found", pid), stock |-> st]
        ELSE IF qty <= 0
          THEN [err |-> Err("Invalid quantity for product", pid), stock |-> st]
        ELSE IF st[pid] < qty
          THEN [err |-> Err("Insufficient stock for product", pid), stock |-> st]
        ELSE [err |-> NoErr, stock |-> [st EXCEPT ![pid] = @ - qty]]

\* One pass of the "validate & adjust stock" loop body on the in-memory
\* stock levels st: the error raised, or the decremented levels.
SaleItem(st, it) ==
    LET pid == it.product_id
        qty == it.quantity
    IN  IF qty <= 0
          THEN [err |-> Err("Invalid quantity for product", pid), stock |-> st]
        ELSE IF pid \notin DOMAIN st
          THEN [err |-> Err("Product not found", pid), stock |-> st]
        ELSE IF st[pid] < qty
          THEN [err |-> Err("Insufficient stock for product", pid), stock |-> st]
        ELSE [err |-> NoErr, stock |-> [st EXCEPT ![pid] = @ - qty]]

\* (mutant) a loop that checks every line item against the stock levels the
\* request started on
RECURSIVE SaleLoopFrom(_, _, _, _)
SaleLoopFrom(st0, st, items, i) ==
    IF i > Len(items) THEN [err |-> NoErr, stock |-> st]
    ELSE LET r == SaleItem(st0, items[i])
         IN  IF r.err # NoErr THEN [err |-> r.err, stock |-> st]
             ELSE SaleLoopFrom(st0,
                               [st EXCEPT ![items[i].product_id] = @ - items[i].quantity],
                               items, i + 1)

SaleLoop_fresh(st, items, i) == SaleLoopFrom(st, st, items, i)

\* The "validate & adjust stock" loop of record_atomic_sale.
RECURSIVE SaleLoop(_, _, _)
SaleLoop(st, items, i) ==
    IF i > Len(items) THEN [err |-> NoErr, stock |-> st]
    ELSE LET r == SaleItem(st, items[i])
         IN  IF r.err # NoErr THEN r ELSE SaleLoop(r.stock, items, i + 1)

\* RetailerMetrics.query.filter_by(retailer_id=...).first(): index of the row, 0 if none.
MetricsFirst(ms, retailer_id) ==
    IF \E i \in 1..Len(ms) : ms[i].retailer_id = retailer_id
      THEN CHOOSE i \in 1..Len(ms) :
             /\ ms[i].retailer_id = retailer_id
             /\ \A j \in 1..(i - 1) : ms[j].retailer_id # retailer_id
      ELSE 0

\* A RetailerMetrics row as constructed, before any sale touched it.
NewMetrics(retailer_id) ==
    [retailer_id |-> retailer_id, daily_quota_usd |-> 0,
     current_streak |-> 0, last_sale_date |-> None]

\* (mutant) a streak that also grows on a second sale of the same day
NextStreak_sameday(m, day) ==
    IF m.last_sale_date = None THEN 1
    ELSE LET last == m.last_sale_date[1]
         IN  IF last = day \/ last = day - 1 THEN m.current_streak + 1
             ELSE 1

\* (mutant) a streak that a first sale leaves as the row was made
NextStreak_nofirst(m, day) ==
    IF m.last_sale_date = None THEN m.current_streak
    ELSE LET last == m.last_sale_date[1]
         IN  IF last = day THEN m.current_streak
             ELSE IF last = day - 1 THEN m.current_streak + 1
             ELSE 1

\* The streak branch of record_atomic_sale.
NextStreak(m, day) ==
    IF m.last_sale_date = None THEN 1
    ELSE LET last == m.last_sale_date[1]
         IN  IF last = day THEN m.current_streak
             ELSE IF last = day - 1 THEN m.current_streak + 1
             ELSE 1

\* (mutant) a metrics update that overwrites the quota with the sale's total
UpdateMetrics_replace(ms, retailer_id, total, day) ==
    LET found == MetricsFirst(ms, retailer_id)
        rows  == IF found = 0 THEN Append(ms, NewMetrics(retailer_id)) ELSE ms
        k     == IF found = 0 THEN Len(rows) ELSE found
        m     == rows[k]
    IN  [rows EXCEPT ![k] = [retailer_id |-> retailer_id,
                             daily_quota_usd |-> total,
                             current_streak |-> NextStreak(m, day),
                             last_sale_date |-> <<day>>]]

\* The "update metrics" block: load or create the row, add the total, set the streak.
UpdateMetrics(ms, retailer_id, total, day) ==
    LET found == MetricsFirst(ms, retailer_id)
        rows  == IF found = 0 THEN Append(ms, NewMetrics(retailer_id)) ELSE ms
        k     == IF found = 0 THEN Len(rows) ELSE found
        m     == rows[k]
    IN  [rows EXCEPT ![k] = [retailer_id |-> retailer_id,
                             daily_quota_usd |-> m.daily_quota_usd + total,
                             current_streak |-> NextStreak(m, day),
                             last_sale_date |-> <<day>>]]

\* (mutant) a log loop that writes one entry for the whole sale
LogSale_once(lg, items, retailer_id, i) ==
    IF i > Len(items) THEN lg
    ELSE log_product_action(lg, items[i].product_id, retailer_id, "Sale")

\* The "for it in items: log_product_action(...)" loop of record_atomic_sale.
RECURSIVE LogSale(_, _, _, _)
LogSale(lg, items, retailer_id, i) ==
    IF i > Len(items) THEN lg
    ELSE LogSale(log_product_action(lg, items[i].product_id, retailer_id, "Sale"),
                 items, retailer_id, i + 1)

\* (mutant) a snapshot that lists the line items last to first
json_dumps_reversed(items) ==
    [k \in 1..(2 * Len(items)) |->
        IF k % 2 = 1 THEN items[Len(items) + 1 - ((k + 1) \div 2)].product_id
        ELSE items[Len(items) + 1 - (k \div 2)].quantity]

\* json.dumps(items): the line items written out one after the other, each
\* as its product_id followed by its quantity.
json_dumps(items) ==
    [k \in 1..(2 * Len(items)) |->
        IF k % 2 = 1 THEN items[(k + 1) \div 2].product_id
        ELSE items[k \div 2].quantity]

\* json.loads(sale.sale_items_json): the line items read back from the text.
json_loads(txt) ==
    [i \in 1..(Len(txt) \div 2) |->
        [product_id |-> txt[2 * i - 1], quantity |-> txt[2 * i]]]

\* SalesManager.record_atomic_sale.  sid is the primary key the database
\* gives the new Sale row, day is date.today(), fault the exception (if any)
\* raised after validation: by the autoflush of the metrics query, by
\* ActivityLogger.log_product_action, or by the commit.
record_atomic_sale(db, retailer_id, items, total_amount, sid, day, fault) ==
    IF items = <<>> \/ total_amount = None
      THEN [sale |-> 0, err |-> Err("Invalid sale payload", 0), db |-> db]
    ELSE
      LET loop == SaleLoop(db.stock, items, 1)
          s1 == [db EXCEPT !.stock = loop.stock]
          s2 == [s1 EXCEPT !.sales = (sid :> [retailer_id |-> retailer_id,
                                              total_amount |-> total_amount[1],
                                              sale_items_json |-> json_dumps(items)])
                                     @@ @]
          s3 == [s2 EXCEPT !.metrics =
                   UpdateMetrics(@, retailer_id, total_amount[1], day)]
          s4 == [s3 EXCEPT !.log = LogSale(@, items, retailer_id, 1)]
      IN  IF loop.err # NoErr
            THEN [sale |-> 0, err |-> loop.err, db |-> sale_except(db, s1)]
          ELSE IF fault = "flush"
            THEN [sale |-> 0, err |-> Err("flush failed", 0), db |-> sale_except(db, s2)]
          ELSE IF fault = "log"
            THEN [sale |-> 0, err |-> Err("log failed", 0), db |-> sale_except(db, s3)]
          ELSE IF fault = "commit"
            THEN [sale |-> 0, err |-> Err("commit failed", 0), db |-> sale_except(db, s4)]
          ELSE [sale |-> sid, err |-> NoErr, db |-> Commit(db, s4)]

\* (mutant) a route that reads a missing total_amount as 0
record_sale_default0(db, retailer_id, items, total_amount, sid, day, fault) ==
    LET t == IF total_amount = None THEN <<0>> ELSE total_amount
    IN  IF retailer_id = 0 \/ items = <<>>
          THEN [resp |-> Response("record_sale", 400,
                          Err("retailer_id, items, total_amount required", 0), 0),
                db |-> db]
        ELSE LET r == record_atomic_sale(db, retailer_id, items, t, sid, day, fault)
             IN  IF r.err # NoErr
                   THEN [resp |-> Response("record_sale", 400, r.err, 0), db |-> r.db]
                   ELSE [resp |-> Response("record_sale", 201, NoErr, r.sale),
                         db |-> r.db]

\* POST /api/v1/sales
record_sale(db, retailer_id, items, total_amount, sid, day, fault) ==
    IF retailer_id = 0 \/ items = <<>> \/ total_amount = None
      THEN [resp |-> Response("record_sale", 400,
                      Err("retailer_id, items, total_amount required", 0), 0),
            db |-> db]
    ELSE LET r == record_atomic_sale(db, retailer_id, items, total_amount,
                                     sid, day, fault)
         IN  IF r.err # NoErr
               THEN [resp |-> Response("record_sale", 400, r.err, 0), db |-> r.db]
               ELSE [resp |-> Response("record_sale", 201, NoErr, r.sale), db |-> r.db]

\* ---------------------------------------------------------------- undo_sale
\* (mutant) a restore that gives back one unit per line item
RECURSIVE RestoreLoop_one(_, _, _)
RestoreLoop_one(st, items, i) ==
    IF i > Len(items) THEN st
    ELSE LET pid == items[i].product_id
         IN  RestoreLoop_one(IF pid \in DOMAIN st
                               THEN [st EXCEPT ![pid] = @ + 1] ELSE st,
                             items, i + 1)

\* (mutant) a loop that ends at the first product it does not find
RECURSIVE RestoreLoop_stop(_, _, _)
RestoreLoop_stop(st, items, i) ==
    IF i > Len(items) THEN st
    ELSE LET pid == items[i].product_id
             qty == items[i].quantity
         IN  IF pid \notin DOMAIN st THEN st
             ELSE RestoreLoop_stop([st EXCEPT ![pid] = @ + qty], items, i + 1)

\* The "restore stock" loop of undo_sale over the deserialized snapshot:
\* products deleted since the sale are skipped.
RECURSIVE RestoreLoop(_, _, _)
RestoreLoop(st, items, i) ==
    IF i > Len(items) THEN st
    ELSE LET pid == items[i].product_id
             qty == items[i].quantity
         IN  RestoreLoop(IF pid \in DOMAIN st
                           THEN [st EXCEPT ![pid] = @ + qty] ELSE st,
                         items, i + 1)

Max(a, b) == IF a >= b THEN a ELSE b

\* (mutant) an adjustment made to the first metrics row, whoever sold
UndoMetrics_firstrow(ms, retailer_id, total) ==
    IF ms = <<>> THEN ms
    ELSE [ms EXCEPT ![1].daily_quota_usd = Max(0, @ - total)]

\* (mutant) an adjustment that also takes the sale back out of the streak
UndoMetrics_streak(ms, retailer_id, total) ==
    LET k == MetricsFirst(ms, retailer_id)
    IN  IF k = 0 THEN ms
        ELSE [ms EXCEPT ![k].daily_quota_usd = Max(0, @ - total),
                        ![k].current_streak = Max(0, @ - 1)]

\* (mutant) an adjustment without the floor at zero
UndoMetrics_nofloor(ms, retailer_id, total) ==
    LET k == MetricsFirst(ms, retailer_id)
    IN  IF k = 0 THEN ms
        ELSE [ms EXCEPT ![k].daily_quota_usd = @ - total]

\* The "adjust metrics" block of undo_sale.
UndoMetrics(ms, retailer_id, total) ==
    LET k == MetricsFirst(ms, retailer_id)
    IN  IF k = 0 THEN ms
        ELSE [ms EXCEPT ![k].daily_quota_usd = Max(0, @ - total)]

\* (mutant) a delete that leaves the row in place
Without_keeps(f, k) == f

\* db.session.delete(row): the table without the row of key k
Without(f, k) == [x \in (DOMAIN f) \ {k} |-> f[x]]

\* DELETE /api/v1/sales/<id>
undo_sale(db, sale_id, fault) ==
    IF sale_id \notin DOMAIN db.sales
      THEN [resp |-> Response("undo_sale", 404, Err("Sale not found", 0), sale_id),
            db |-> db]
    ELSE
      LET sale == db.sales[sale_id]
          items == json_loads(sale.sale_items_json)
          s1 == [db EXCEPT !.stock = RestoreLoop(@, items, 1)]
          s2 == [s1 EXCEPT !.metrics =
                   UndoMetrics(@, sale.retailer_id, sale.total_amount)]
          s3 == [s2 EXCEPT !.sales = Without(@, sale_id)]
      IN  IF fault = "flush"
            THEN [resp |-> Response("undo_sale", 500, Err("flush failed", 0), sale_id),
                  db |-> undo_except(db, s2)]
          ELSE IF fault = "commit"
            THEN [resp |-> Response("undo_sale", 500, Err("commit failed", 0), sale_id),
                  db |-> undo_except(db, s3)]
          ELSE [resp |-> Response("undo_sale", 200, NoErr, sale_id),
                db |-> Commit(db, s3)]

\* ------------------------------------------------------------ update_stock
\* InventoryManager.update_stock
update_stock(db, product_id, delta, acting_user_id, action_type) ==
    IF product_id \notin DOMAIN db.stock
      THEN [resp |-> Response("update_stock", 404, Err("Product not found", product_id), 0),
            db |-> db]
    ELSE
      LET s1 == [db EXCEPT !.stock[product_id] = @ + delta]
          s2 == [s1 EXCEPT !.log =
                   log_product_action(@, product_id, acting_user_id, action_type)]
      IN  [resp |-> Response("update_stock", 200, NoErr, 0), db |-> Commit(db, s2)]

\* --------------------------------------------------------- dispose_product
\* POST /api/v1/log/dispose
dispose_product(db, product_id, user_id, qty, fault) ==
    IF product_id = 0 \/ user_id = 0 \/ qty <= 0
      THEN [resp |-> Response("dispose_product", 400,
                      Err("product_id, user_id, quantity required", 0), 0),
            db |-> db]
    ELSE IF product_id \notin DOMAIN db.stock
      THEN [resp |-> Response("dispose_product", 404,
                      Err("Product not found", product_id), 0),
            db |-> db]
    ELSE
      LET s1 == [db EXCEPT !.stock[product_id] = Max(0, @ - qty)]
          s2 == [s1 EXCEPT !.log = Append(@, [product_id |-> product_id,
                                              user_id |-> user_id,
                                              action_type |-> "Dispose"])]
      IN  IF fault # "none"
            THEN [resp |-> Response("dispose_product", 500, Err("commit failed", 0), 0),
                  db |-> Rollback(db, s2)]
            ELSE [resp |-> Response("dispose_product", 201, NoErr, 0),
                  db |-> Commit(db, s2)]

\* ---------------------------------------------------------- delete_product
\* Product.log_entries has no delete cascade: deleting the product sets the
\* product_id of its ProductLog rows to NULL.
Orphan(lg, product_id) ==
    [i \in 1..Len(lg) |->
        IF lg[i].product_id = product_id THEN [lg[i] EXCEPT !.product_id = 0]
        ELSE lg[i]]

\* (mutant) a product deletion that cascades to the sales naming the product
delete_product_cascade(db, product_id) ==
    IF product_id \notin DOMAIN db.stock
      THEN [resp |-> Response("delete_product", 404,
                      Err("Product not found", product_id), 0),
            db |-> db]
    ELSE
      LET keep == {id \in DOMAIN db.sales :
                     \A it \in Range(json_loads(db.sales[id].sale_items_json)) :
                        it.product_id # product_id}
          s1 == [db EXCEPT !.log = log_product_action(@, product_id, 0, "DELETE")]
          s2 == [s1 EXCEPT !.stock = Without(@, product_id),
                           !.category_id = Without(@, product_id),
                           !.log = Orphan(@, product_id),
                           !.sales = [id \in keep |-> db.sales[id]]]
      IN  [resp |-> Response("delete_product", 200, NoErr, 0), db |-> Commit(db, s2)]

\* DELETE /api/v1/products/<id>
delete_product(db, product_id) ==
    IF product_id \notin DOMAIN db.stock
      THEN [resp |-> Response("delete_product", 404,
                      Err("Product not found", product_id), 0),
            db |-> db]
    ELSE
      LET s1 == [db EXCEPT !.log = log_product_action(@, product_id, 0, "DELETE")]
          s2 == [s1 EXCEPT !.stock = Without(@, product_id),
                           !.category_id = Without(@, product_id),
                           !.log = Orphan(@, product_id)]
      IN  [resp |-> Response("delete_product", 200, NoErr, 0), db |-> Commit(db, s2)]

\* ------------------------------------------------------------- create_user
\* The primary key the database gives a new row of a table with rows f:
\* SQLite's rowid rule, one more than the largest key in the table.
NextId(f) ==
    IF DOMAIN f = {} THEN 1
    ELSE 1 + (CHOOSE m \in DOMAIN f : \A k \in DOMAIN f : k <= m)

\* POST /api/v1/users and UserManager.create_user (a username of 0: missing)
create_user(db, username, role) ==
    IF username = 0
      THEN [resp |-> Response("create_user", 400,
                      Err("username and password required", 0), 0),
            db |-> db]
    ELSE IF \E u \in DOMAIN db.users : db.users[u].username = username
      THEN [resp |-> Response("create_user", 400, Err("Username already exists.", 0), 0),
            db |-> db]
    ELSE
      LET uid == NextId(db.users)
          s1 == [db EXCEPT !.users = (uid :> [username |-> username, role |-> role]) @@ @]
          s2 == IF role = "Retailer"
                  THEN [s1 EXCEPT !.metrics = Append(@, NewMetrics(uid))]
                  ELSE s1
      IN  [resp |-> Response("create_user", 201, NoErr, 0), db |-> Commit(db, s2)]

\* ------------------------------------------------- products and categories
\* PUT /api/v1/products/<id> with a category_id in the body (0: null)
update_product(db, product_id, cat) ==
    IF product_id \notin DOMAIN db.stock
      THEN [resp |-> Response("update_product", 404,
                      Err("Product not found", product_id), 0),
            db |-> db]
    ELSE IF cat # 0 /\ cat \notin DOMAIN db.categories
      THEN [resp |-> Response("update_product", 404, Err("Category not found", 0), 0),
            db |-> db]
    ELSE [resp |-> Response("update_product", 200, NoErr, 0),
          db |-> Commit(db, [db EXCEPT !.category_id[product_id] = cat])]

\* POST /api/v1/products: after the category check the constructor call
\* Product(..., brand=...) raises, as Product has no such column, and the
\* except clause rolls back and answers 500.
create_product(db, cat) ==
    IF cat # 0 /\ cat \notin DOMAIN db.categories
      THEN [resp |-> Response("create_product", 404, Err("Category not found", 0), 0),
            db |-> db]
    ELSE [resp |-> Response("create_product", 500,
                    Err("'brand' is an invalid keyword argument for Product", 0), 0),
          db |-> Rollback(db, db)]

\* POST /api/v1/categories (a name of 0: missing)
create_category(db, name) ==
    IF name = 0
      THEN [resp |-> Response("create_category", 400, Err("name required", 0), 0),
            db |-> db]
    ELSE IF \E c \in DOMAIN db.categories : db.categories[c] = name
      THEN [resp |-> Response("create_category", 400,
                      Err("Category already exists", 0), 0),
            db |-> db]
    ELSE [resp |-> Response("create_category", 201, NoErr, 0),
          db |-> Commit(db, [db EXCEPT !.categories =
                               (NextId(db.categories) :> name) @@ @])]

\* DELETE /api/v1/categories/<id>: the row is deleted whatever refers to
\* it.  What becomes of the category_id of the products that named it is
\* decided by the Category model: with a relationship to Product the
\* session sets it to NULL (nullify), without one it stays as it is.
delete_category(db, cat_id, nullify) ==
    IF cat_id \notin DOMAIN db.categories
      THEN [resp |-> Response("delete_category", 404, Err("Category not found", 0), 0),
            db |-> db]
    ELSE
      LET s1 == [db EXCEPT !.categories = Without(@, cat_id)]
          s2 == IF nullify
                  THEN [s1 EXCEPT !.category_id =
                          [p \in DOMAIN @ |-> IF @[p] = cat_id THEN 0 ELSE @[p]]]
                  ELSE s1
      IN  [resp |-> Response("delete_category", 200, NoErr, 0), db |-> Commit(db, s2)]

\* ---------------------------------------------------------------- MFAService
\* MFAService.send_mfa_code: the code drawn is stored under the username,
\* in place of any code stored there, with its expiry time.
send_mfa_code(codes, username, code, t) ==
    [u \in (DOMAIN codes) \cup {username} |->
        IF u = username THEN [code |-> code, expiry |-> t + ExpiryMinutes]
        ELSE codes[u]]

\* (mutant) a verification that leaves the code in place when it succeeds
verify_mfa_code_keeps(codes, username, entered_code, t) ==
    IF username \notin DOMAIN codes
      THEN [valid |-> FALSE, codes |-> codes]
    ELSE IF t > codes[username].expiry
      THEN [valid |-> FALSE, codes |-> Without(codes, username)]
    ELSE IF entered_code = codes[username].code
      THEN [valid |-> TRUE, codes |-> codes]
    ELSE [valid |-> FALSE, codes |-> codes]

\* MFAService.verify_mfa_code
verify_mfa_code(codes, username, entered_code, t) ==
    IF username \notin DOMAIN codes
      THEN [valid |-> FALSE, codes |-> codes]
    ELSE IF t > codes[username].expiry
      THEN [valid |-> FALSE, codes |-> Without(codes, username)]
    ELSE IF entered_code = codes[username].code
      THEN [valid |-> TRUE, codes |-> Without(codes, username)]
    ELSE [valid |-> FALSE, codes |-> codes]

\* a worker with no request
Idle ==
    [pc |-> "idle", retailer_id |-> 0, items |-> <<>>, total_amount |-> None,
     i |-> 0, identity |-> <<>>, mrow |-> 0, mloaded |-> NewMetrics(0),
     mnew |-> NewMetrics(0), status |-> 0, err |-> NoErr, sale_id |-> 0]

\* ----------------------------------------------------------------- actions
Install(db) ==
    /\ stock' = db.stock
    /\ sales' = db.sales
    /\ metrics' = db.metrics
    /\ log' = db.log
    /\ users' = db.users
    /\ categories' = db.categories
    /\ category_id' = db.category_id

\* History bookkeeping: a new Sale row remembers the stock before the sale;
\* a surviving row accumulates what this step did to each product.
Track ==
    base' = [id \in DOMAIN sales' |->
               IF id \in DOMAIN sales
                 THEN [p \in (DOMAIN base[id]) \cap (DOMAIN stock') |->
                          base[id][p] + stock'[p] - stock[p]]
                 ELSE stock]

\* The primary key the database gives a new Sale row: SQLite's rowid rule,
\* one more than the largest key in the table (0: the table is full).
NewSaleIds ==
    LET next == IF sales = <<>> THEN 1
                ELSE 1 + (CHOOSE m \in DOMAIN sales : \A k \in DOMAIN sales : k <= m)
    IN  IF next \in SaleIds THEN {next} ELSE {0}

\* The log table has room for n more rows.
LogRoom(n) == Len(log) + n <= MaxLog

ApplySale(retailer_id, items, total_amount, sid, fault) ==
    LET r == record_sale(Database, retailer_id, items, total_amount,
                         sid, today, fault)
    IN  /\ r.resp.status = 201 => sid # 0
        /\ fault # "none" => r.resp.err.msg \in FaultMsgs
        /\ Install(r.db)
        /\ req' = [op |-> "record_sale", retailer_id |-> retailer_id,
                   items |-> items, total_amount |-> total_amount,
                   fault |-> fault]
        /\ resp' = r.resp
        /\ Track
        /\ UNCHANGED <<today, sess, mfavars>>

UndoSale(sale_id, fault) ==
    LET r == undo_sale(Database, sale_id, fault)
    IN  /\ fault # "none" => r.resp.err.msg \in FaultMsgs
        /\ Install(r.db)
        /\ req' = [op |-> "undo_sale", sale_id |-> sale_id, fault |-> fault]
        /\ resp' = r.resp
        /\ Track
        /\ UNCHANGED <<today, sess, mfavars>>

UpdateStock(product_id, delta, acting_user_id, action_type) ==
    LET r == update_stock(Database, product_id, delta, acting_user_id, action_type)
    IN  /\ Install(r.db)
        /\ req' = [op |-> "update_stock", product_id |-> product_id,
                   delta |-> delta, user_id |-> acting_user_id]
        /\ resp' = r.resp
        /\ Track
        /\ UNCHANGED <<today, sess, mfavars>>

Dispose(product_id, user_id, qty, fault) ==
    LET r == dispose_product(Database, product_id, user_id, qty, fault)
    IN  /\ fault # "none" => r.resp.err.msg \in FaultMsgs
        /\ Install(r.db)
        /\ req' = [op |-> "dispose_product", product_id |-> product_id,
                   quantity |-> qty, user_id |-> user_id, fault |-> fault]
        /\ resp' = r.resp
        /\ Track
        /\ UNCHANGED <<today, sess, mfavars>>

DeleteProduct(product_id) ==
    LET r == delete_product(Database, product_id)
    IN  /\ Install(r.db)
        /\ req' = [op |-> "delete_product", product_id |-> product_id]
        /\ resp' = r.resp
        /\ Track
        /\ UNCHANGED <<today, sess, mfavars>>

CreateUser(username, role) ==
    LET r == create_user(Database, username, role)
    IN  /\ Install(r.db)
        /\ req' = [op |-> "create_user", username |-> username, role |-> role]
        /\ resp' = r.resp
        /\ Track
        /\ UNCHANGED <<today, sess, mfavars>>

UpdateProduct(product_id, cat) ==
    LET r == update_product(Database, product_id, cat)
    IN  /\ Install(r.db)
        /\ req' = [op |-> "update_product", product_id |-> product_id,
                   category_id |-> cat]
        /\ resp' = r.resp
        /\ Track
        /\ UNCHANGED <<today, sess, mfavars>>

CreateProduct(cat) ==
    LET r == create_product(Database, cat)
    IN  /\ Install(r.db)
        /\ req' = [op |-> "create_product", category_id |-> cat]
        /\ resp' = r.resp
        /\ Track
        /\ UNCHANGED <<today, sess, mfavars>>

CreateCategory(name) ==
    LET r == create_category(Database, name)
    IN  /\ Install(r.db)
        /\ req' = [op |-> "create_category", name |-> name]
        /\ resp' = r.resp
        /\ Track
        /\ UNCHANGED <<today, sess, mfavars>>

DeleteCategory(cat_id, nullify) ==
    LET r == delete_category(Database, cat_id, nullify)
    IN  /\ Install(r.db)
        /\ req' = [op |-> "delete_category", category_id |-> cat_id]
        /\ resp' = r.resp
        /\ Track
        /\ UNCHANGED <<today, sess, mfavars>>

\* POST /api/v1/auth/mfa/send for a user who takes MFA: code is the code
\* generate_mfa_code draws, delivered whether the mail went out.
SendMfaCode(username, code, delivered) ==
    /\ mfa' = send_mfa_code(mfa, username, code, now)
    /\ req' = [op |-> "send_mfa", username |-> username, code |-> code]
    /\ resp' = IF delivered
                 THEN Response("send_mfa", 200, NoErr, 0)
                 ELSE Response("send_mfa", 500, Err("Failed to send MFA code", 0), 0)
    /\ UNCHANGED <<dbvars, today, base, sess, now>>

\* POST /api/v1/auth/mfa/verify
VerifyMfaCode(username, entered_code) ==
    LET r == verify_mfa_code(mfa, username, entered_code, now)
    IN  /\ mfa' = r.codes
        /\ req' = [op |-> "verify_mfa", username |-> username, code |-> entered_code]
        /\ resp' = IF r.valid
                     THEN Response("verify_mfa", 200, NoErr, 0)
                     ELSE Response("verify_mfa", 401, Err("Invalid or expired code", 0), 0)
        /\ UNCHANGED <<dbvars, today, base, sess, now>>

\* a minute passes
Tick ==
    /\ now < MaxNow
    /\ now' = now + 1
    /\ UNCHANGED <<dbvars, today, req, resp, base, sess, mfa>>

\* The server has answered its last request and waits for the next one.
Ready == req.op = "none"

\* The response is sent and the request context torn down.
Respond ==
    /\ ~Ready
    /\ req' = [op |-> "none"]
    /\ resp' = Response("none", 0, NoErr, 0)
    /\ UNCHANGED <<dbvars, today, base, sess, mfavars>>

\* What _seed_initial_data leaves besides the metrics row: the three users
\* and the categories; the products have no category yet.
SeedUsers ==
    (1 :> [username |-> 1, role |-> "Admin"])
    @@ (2 :> [username |-> 2, role |-> "Manager"])
    @@ (3 :> [username |-> 3, role |-> "Retailer"])

SeedCatalog ==
    /\ users = SeedUsers
    /\ categories = [c \in 1..NumCategories |-> c]
    /\ category_id \in [DOMAIN stock -> {0}]

\* The database the server starts on: the seeded users' metrics row, the
\* products (fully stocked), no sales, an empty log.
Init ==
    /\ stock = [p \in ProductIds |-> MaxStock]
    /\ sales = <<>>
    /\ metrics = <<NewMetrics(SeedRetailer)>>
    /\ log = <<>>
    /\ SeedCatalog
    /\ today = 0
    /\ req = [op |-> "none"]
    /\ resp = Response("none", 0, NoErr, 0)
    /\ base = <<>>
    /\ sess = [w \in Workers |-> Idle]
    /\ mfa = <<>>
    /\ now = 0

\* Every operation of the core, one request at a time.
Next ==
    \/ /\ Ready
       /\ \E r \in Retailers, items \in ValidItemSeqsUpTo(MaxLog - Len(log)),
             t \in SaleTotals, sid \in NewSaleIds :
             ApplySale(r, items, t, sid, "none")
    \/ /\ Ready
       /\ \E sid \in SaleIds, f \in Faults : UndoSale(sid, f)
    \/ /\ Ready
       /\ LogRoom(1)
       /\ \E p \in ProductIds, d \in Deltas :
             UpdateStock(p, d, SeedRetailer, IF d > 0 THEN "Restock" ELSE "Dispose")
    \/ /\ Ready
       /\ LogRoom(1)
       /\ \E p \in ProductIds, q \in Quantities, f \in {"none", "commit"} :
             Dispose(p, SeedRetailer, q, f)
    \/ /\ Ready
       /\ LogRoom(1)
       /\ \E p \in ProductIds : DeleteProduct(p)
    \/ Respond

Spec == Init /\ [][Next]_vars

\* Any database the sale endpoint can be called on, as far as it reads it:
\* the first k products at any stock levels and the seeded metrics row.
InitSale ==
    /\ \E k \in ProductIds : stock \in [1..k -> 0..MaxStock]
    /\ sales = <<>>
    /\ metrics = <<NewMetrics(SeedRetailer)>>
    /\ log = <<>>
    /\ SeedCatalog
    /\ today = 0
    /\ req = [op |-> "none"]
    /\ resp = Response("none", 0, NoErr, 0)
    /\ base = <<>>
    /\ sess = [w \in Workers |-> Idle]
    /\ mfa = <<>>
    /\ now = 0

\* The sale endpoint alone: one call of it, over every request it can
\* receive and every fault it can meet.
NextSale ==
    \/ /\ Ready
       /\ \E r \in Retailers, items \in ItemSeqs, t \in Totals,
             sid \in NewSaleIds, f \in Faults :
             ApplySale(r, items, t, sid, f)

SpecSale == InitSale /\ [][NextSale]_vars

\* The system clock moves to another day (forwards, or backwards when it is
\* corrected).
SetClock(d) ==
    /\ d # today
    /\ today' = d
    /\ UNCHANGED <<dbvars, req, resp, base, sess, mfavars>>

\* A database whose seeded retailer already has a sales history: any streak
\* and any last sale day, on any day.
InitStreak ==
    /\ stock = [p \in ProductIds |-> MaxStock]
    /\ sales = <<>>
    /\ metrics \in {<<NewMetrics(SeedRetailer)>>}
                   \cup {<<[retailer_id |-> SeedRetailer, daily_quota_usd |-> 0,
                            current_streak |-> n, last_sale_date |-> <<d>>]>> :
                         n \in 1..MaxStreak, d \in Days}
    /\ log = <<>>
    /\ SeedCatalog
    /\ today \in Days
    /\ req = [op |-> "none"]
    /\ resp = Response("none", 0, NoErr, 0)
    /\ base = <<>>
    /\ sess = [w \in Workers |-> Idle]
    /\ mfa = <<>>
    /\ now = 0

\* a sale of one unit of the first product
OneUnit == <<[product_id |-> 1, quantity |-> 1]>>

\* Sales and undos as the days pass.
NextStreakSpec ==
    \/ /\ Ready
       /\ LogRoom(1)
       /\ \E r \in Retailers, sid \in NewSaleIds :
             ApplySale(r, OneUnit, <<MaxTotal>>, sid, "none")
    \/ /\ Ready
       /\ \E sid \in SaleIds, f \in Faults : UndoSale(sid, f)
    \/ /\ Ready
       /\ \E d \in Days : SetClock(d)
    \/ Respond

SpecStreak == InitStreak /\ [][NextStreakSpec]_vars

\* ------------------------------------------ undo after a product is deleted
\* requests of several line items whose quantities are all positive
MultiLineSeqs == {items \in ValidItemSeqsUpTo(MaxItems) : Len(items) >= 2}

\* Sales of several lines, deletions of products and undos, while the log
\* table has room for the lines of one sale and one deletion.
NextDeleted ==
    \/ /\ Ready
       /\ \E items \in MultiLineSeqs, sid \in NewSaleIds :
             /\ Len(log) + Len(items) <= MaxItems + 1
             /\ ApplySale(SeedRetailer, items, <<MaxTotal>>, sid, "none")
    \/ /\ Ready
       /\ Len(log) + 1 <= MaxItems + 1
       /\ \E p \in ProductIds : DeleteProduct(p)
    \/ /\ Ready
       /\ \E sid \in SaleIds : UndoSale(sid, "none")
    \/ Respond

SpecDeleted == Init /\ [][NextDeleted]_vars

\* ------------------------------------------- the catalog: product categories
CategoryIds == 1..NumCategories

\* Product and category requests: a product is given a category or none, a
\* product is created or deleted, a category is created or deleted.
NextCatalog ==
    \/ /\ Ready
       /\ \E p \in ProductIds, c \in {0} \cup CategoryIds : UpdateProduct(p, c)
    \/ /\ Ready
       /\ \E c \in {0} \cup CategoryIds : CreateProduct(c)
    \/ /\ Ready
       /\ NextId(categories) \in CategoryIds
       /\ \E n \in {0} \cup CategoryIds : CreateCategory(n)
    \/ /\ Ready
       /\ \E c \in CategoryIds, nullify \in BOOLEAN : DeleteCategory(c, nullify)
    \/ /\ Ready
       /\ LogRoom(1)
       /\ \E p \in ProductIds : DeleteProduct(p)
    \/ Respond

SpecCatalog == Init /\ [][NextCatalog]_vars

\* ------------------------------------------------------ users and retailers
\* ids a request can name as its retailer: the users' and one past them
UserIds == 1..MaxUsers
Roles == {"Admin", "Manager", "Retailer"}

\* One-unit sales under any retailer id, their undos, and user creation.
NextUsers ==
    \/ /\ Ready
       /\ LogRoom(1)
       /\ \E r \in UserIds, sid \in NewSaleIds :
             ApplySale(r, OneUnit, <<MaxTotal>>, sid, "none")
    \/ /\ Ready
       /\ \E sid \in SaleIds : UndoSale(sid, "none")
    \/ /\ Ready
       /\ NextId(users) \in UserIds
       /\ \E n \in {0} \cup UserIds, role \in Roles : CreateUser(n, role)
    \/ Respond

SpecUsers == Init /\ [][NextUsers]_vars

\* ------------------------------------------------- every kind of request
\* One-unit sales by the two sellers and their undos, among requests of
\* every other kind: stock adjustment, disposal, product and category
\* requests, user creation.
NextFrame ==
    \/ /\ Ready
       /\ LogRoom(1)
       /\ \E r \in Retailers, sid \in NewSaleIds :
             ApplySale(r, OneUnit, <<MaxTotal>>, sid, "none")
    \/ /\ Ready
       /\ \E sid \in SaleIds : UndoSale(sid, "none")
    \/ /\ Ready
       /\ LogRoom(1)
       /\ \E d \in {-1, 1} : UpdateStock(1, d, SeedRetailer,
                                          IF d > 0 THEN "Restock" ELSE "Dispose")
    \/ /\ Ready
       /\ LogRoom(1)
       /\ Dispose(1, SeedRetailer, 1, "none")
    \/ /\ Ready
       /\ LogRoom(1)
       /\ DeleteProduct(1)
    \/ /\ Ready
       /\ UpdateProduct(1, 1)
    \/ /\ Ready
       /\ CreateProduct(0)
    \/ /\ Ready
       /\ NextId(categories) \in CategoryIds
       /\ CreateCategory(NextId(categories))
    \/ /\ Ready
       /\ DeleteCategory(NextId(categories) - 1, TRUE)
    \/ /\ Ready
       /\ NextId(users) \in UserIds
       /\ CreateUser(NextId(users), "Retailer")
    \/ Respond

SpecFrame == Init /\ [][NextFrame]_vars

\* ------------------------------------------------------------ MFA requests
\* the usernames of the seeded Admin and Manager, who take MFA
MfaUsers == {1, 2}
\* the codes generate_mfa_code can draw
Codes == 1..NumCodes

NextMFA ==
    \/ /\ Ready
       /\ \E u \in MfaUsers, c \in Codes, delivered \in BOOLEAN : SendMfaCode(u, c, delivered)
    \/ /\ Ready
       /\ \E u \in MfaUsers, c \in Codes : VerifyMfaCode(u, c)
    \/ /\ Ready
       /\ Tick
    \/ Respond

SpecMFA == Init /\ [][NextMFA]_vars

\* ------------------------------------------------- concurrent sale requests
\* The server handles each request on a thread of its own, with a session of
\* its own.  A session reads the committed database when it first loads a
\* row, keeps the loaded object in its identity map, and writes the values
\* it holds (UPDATE ... SET stock_level = <value>) when it flushes and
\* commits.  The code takes no lock and checks no version.

\* the identity map laid over the committed product rows
SessionView(identity) ==
    [p \in (DOMAIN stock) \cup (DOMAIN identity) |->
        IF p \in DOMAIN identity THEN identity[p] ELSE stock[p]]

Finish(w, status, err) ==
    sess' = [sess EXCEPT ![w] = [Idle EXCEPT !.pc = "done",
                                             !.retailer_id = sess[w].retailer_id,
                                             !.items = sess[w].items,
                                             !.total_amount = sess[w].total_amount,
                                             !.status = status,
                                             !.err = err]]

\* record_sale's payload check and record_atomic_sale's own: the request is
\* rejected, or the loop starts.
Begin(w, retailer_id, items, total_amount) ==
    /\ sess[w].pc = "idle"
    /\ IF retailer_id = 0 \/ items = <<>> \/ total_amount = None
         THEN sess' = [sess EXCEPT ![w] =
                         [Idle EXCEPT !.pc = "done",
                                      !.retailer_id = retailer_id,
                                      !.items = items,
                                      !.total_amount = total_amount,
                                      !.status = 400,
                                      !.err = Err("retailer_id, items, total_amount required", 0)]]
         ELSE sess' = [sess EXCEPT ![w] =
                         [Idle EXCEPT !.pc = "loop",
                                      !.retailer_id = retailer_id,
                                      !.items = items,
                                      !.total_amount = total_amount,
                                      !.i = 1]]
    /\ UNCHANGED <<dbvars, today, req, resp, base, mfavars>>

\* One pass of the validate-and-adjust loop: Product.query.get loads the
\* row (from the identity map if this session holds it already), the
\* checks run and the object in the session is decremented.
LoopStep(w) ==
    /\ sess[w].pc = "loop"
    /\ LET it == sess[w].items[sess[w].i]
           r == SaleItem(SessionView(sess[w].identity), it)
           last == sess[w].i = Len(sess[w].items)
       IN  IF r.err # NoErr
             THEN Finish(w, 400, r.err)
             ELSE sess' = [sess EXCEPT
                     ![w].identity = [p \in (DOMAIN sess[w].identity) \cup {it.product_id}
                                        |-> r.stock[p]],
                     ![w].i = @ + 1,
                     ![w].pc = IF last THEN "metrics" ELSE "loop"]
    /\ UNCHANGED <<dbvars, today, req, resp, base, mfavars>>

\* The metrics block: the query autoflushes the session first (the product
\* UPDATEs and the Sale INSERT), which takes SQLite's database write lock
\* and holds it until the commit, so it waits while another session is
\* between its flush and its commit; then the row is loaded (or a new one
\* made) and updated in the session.
MetricsStep(w) ==
    /\ sess[w].pc = "metrics"
    /\ \A v \in Workers \ {w} : sess[v].pc # "commit"
    /\ LET r == sess[w].retailer_id
           k == MetricsFirst(metrics, r)
           rows == UpdateMetrics(metrics, r, sess[w].total_amount[1], today)
       IN  sess' = [sess EXCEPT
                     ![w].mrow = k,
                     ![w].mloaded = IF k = 0 THEN NewMetrics(r) ELSE metrics[k],
                     ![w].mnew = IF k = 0 THEN rows[Len(rows)] ELSE rows[k],
                     ![w].pc = "commit"]
    /\ UNCHANGED <<dbvars, today, req, resp, base, mfavars>>

\* The row the session's UPDATE leaves: the columns it changed take the
\* session's values, the others keep the committed ones.
Flushed(committed, loaded, new) ==
    [retailer_id |-> committed.retailer_id,
     daily_quota_usd |-> IF new.daily_quota_usd # loaded.daily_quota_usd
                           THEN new.daily_quota_usd ELSE committed.daily_quota_usd,
     current_streak |-> IF new.current_streak # loaded.current_streak
                          THEN new.current_streak ELSE committed.current_streak,
     last_sale_date |-> IF new.last_sale_date # loaded.last_sale_date
                          THEN new.last_sale_date ELSE committed.last_sale_date]

\* db.session.commit(): the session's product levels, the Sale row, the
\* metrics row and the log entries are written and become visible.
CommitStep(w, sid) ==
    /\ sess[w].pc = "commit"
    /\ sid # 0
    /\ Len(log) + Len(sess[w].items) <= MaxLog
    /\ IF \E p \in DOMAIN sess[w].identity : p \notin DOMAIN stock
         THEN /\ Finish(w, 400, Err("commit failed", 0))
              /\ UNCHANGED dbvars
         ELSE /\ stock' = [p \in DOMAIN stock |->
                             IF p \in DOMAIN sess[w].identity
                               THEN sess[w].identity[p] ELSE stock[p]]
              /\ sales' = (sid :> [retailer_id |-> sess[w].retailer_id,
                                   total_amount |-> sess[w].total_amount[1],
                                   sale_items_json |-> json_dumps(sess[w].items)])
                            @@ sales
              /\ metrics' = IF sess[w].mrow = 0
                              THEN Append(metrics, sess[w].mnew)
                              ELSE [metrics EXCEPT ![sess[w].mrow] =
                                      Flushed(@, sess[w].mloaded, sess[w].mnew)]
              /\ log' = LogSale(log, sess[w].items, sess[w].retailer_id, 1)
              /\ UNCHANGED <<users, categories, category_id>>
              /\ Finish(w, 201, NoErr)
    /\ Track
    /\ UNCHANGED <<today, req, resp, mfavars>>

\* Workers sale requests, one per worker, for up to ConcQty units of the
\* first product, against products stocked ConcStock.
InitConc ==
    /\ stock = [p \in ProductIds |-> ConcStock]
    /\ sales = <<>>
    /\ metrics = <<NewMetrics(SeedRetailer)>>
    /\ log = <<>>
    /\ SeedCatalog
    /\ today = 0
    /\ req = [op |-> "none"]
    /\ resp = Response("none", 0, NoErr, 0)
    /\ base = <<>>
    /\ sess = [w \in Workers |-> Idle]
    /\ mfa = <<>>
    /\ now = 0

ConcItemSeqs == {<<[product_id |-> 1, quantity |-> q]>> : q \in 1..ConcQty}

NextConc ==
    \/ \E w \in Workers, items \in ConcItemSeqs :
          Begin(w, SeedRetailer, items, <<MaxTotal>>)
    \/ \E w \in Workers : LoopStep(w)
    \/ \E w \in Workers : MetricsStep(w)
    \/ \E w \in Workers, sid \in NewSaleIds : CommitStep(w, sid)

SpecConc == InitConc /\ [][NextConc]_vars

\* ------------------------------------------------- concurrent undo requests
\* undo_sale on a thread and a session of its own, step by step.

UndoFinish(w, status, err) ==
    sess' = [sess EXCEPT ![w] = [Idle EXCEPT !.pc = "done",
                                             !.sale_id = sess[w].sale_id,
                                             !.retailer_id = sess[w].retailer_id,
                                             !.items = sess[w].items,
                                             !.total_amount = sess[w].total_amount,
                                             !.status = status,
                                             !.err = err]]

\* Sale.query.get(sale_id): 404 when the row is not there, else the row is
\* loaded into the session and its snapshot deserialized.
UndoBegin(w, sale_id) ==
    /\ sess[w].pc = "idle"
    /\ IF sale_id \notin DOMAIN sales
         THEN sess' = [sess EXCEPT ![w] =
                         [Idle EXCEPT !.pc = "done",
                                      !.sale_id = sale_id,
                                      !.status = 404,
                                      !.err = Err("Sale not found", 0)]]
         ELSE sess' = [sess EXCEPT ![w] =
                         [Idle EXCEPT !.pc = "restore",
                                      !.sale_id = sale_id,
                                      !.retailer_id = sales[sale_id].retailer_id,
                                      !.total_amount = <<sales[sale_id].total_amount>>,
                                      !.items = json_loads(sales[sale_id].sale_items_json),
                                      !.i = 1]]
    /\ UNCHANGED <<dbvars, today, req, resp, base, mfavars>>

\* One pass of the restore loop: Product.query.get loads the row (from the
\* identity map if the session holds it) and the object in the session is
\* incremented; a product that is not there is passed over.
UndoRestoreStep(w) ==
    /\ sess[w].pc = "restore"
    /\ LET it == sess[w].items[sess[w].i]
           view == SessionView(sess[w].identity)
           last == sess[w].i = Len(sess[w].items)
       IN  sess' = [sess EXCEPT
                     ![w].identity =
                        IF it.product_id \in DOMAIN view
                          THEN [p \in (DOMAIN sess[w].identity) \cup {it.product_id} |->
                                  IF p = it.product_id THEN view[p] + it.quantity
                                  ELSE sess[w].identity[p]]
                          ELSE @,
                     ![w].i = @ + 1,
                     ![w].pc = IF last THEN "umetrics" ELSE "restore"]
    /\ UNCHANGED <<dbvars, today, req, resp, base, mfavars>>

\* The metrics block of undo_sale: the query autoflushes the product
\* UPDATEs, which takes SQLite's write lock (it waits while another session
\* is between its flush and its commit), then the row is loaded and
\* adjusted in the session.
UndoMetricsStep(w) ==
    /\ sess[w].pc = "umetrics"
    /\ \A v \in Workers \ {w} : sess[v].pc \notin {"commit", "ucommit"}
    /\ LET r == sess[w].retailer_id
           k == MetricsFirst(metrics, r)
           rows == UndoMetrics(metrics, r, sess[w].total_amount[1])
       IN  sess' = [sess EXCEPT
                     ![w].mrow = k,
                     ![w].mloaded = IF k = 0 THEN NewMetrics(r) ELSE metrics[k],
                     ![w].mnew = IF k = 0 THEN NewMetrics(r) ELSE rows[k],
                     ![w].pc = "ucommit"]
    /\ UNCHANGED <<dbvars, today, req, resp, base, mfavars>>

\* db.session.delete(sale); db.session.commit(): the session's product
\* levels and metrics row are written, the Sale row is deleted (a DELETE
\* that matches no row only draws a warning), and the answer is 200.
UndoCommitStep(w) ==
    /\ sess[w].pc = "ucommit"
    /\ stock' = [p \in DOMAIN stock |->
                   IF p \in DOMAIN sess[w].identity
                     THEN sess[w].identity[p] ELSE stock[p]]
    /\ metrics' = IF sess[w].mrow = 0 THEN metrics
                  ELSE [metrics EXCEPT ![sess[w].mrow] =
                          Flushed(@, sess[w].mloaded, sess[w].mnew)]
    /\ sales' = IF sess[w].sale_id \in DOMAIN sales
                  THEN Without(sales, sess[w].sale_id) ELSE sales
    /\ UndoFinish(w, 200, NoErr)
    /\ Track
    /\ UNCHANGED <<log, users, categories, category_id, today, req, resp, mfavars>>

\* Sales of the seeded retailer, one request at a time, and then undo
\* requests, one per worker, running concurrently.
NextConcUndo ==
    \/ /\ Ready
       /\ \A w \in Workers : sess[w].pc = "idle"
       /\ \E items \in ValidItemSeqsUpTo(MaxLog - Len(log)), sid \in NewSaleIds :
             ApplySale(SeedRetailer, items, <<MaxTotal>>, sid, "none")
    \/ Respond
    \/ /\ Ready
       /\ \E w \in Workers, sid \in SaleIds : UndoBegin(w, sid)
    \/ \E w \in Workers : UndoRestoreStep(w)
    \/ \E w \in Workers : UndoMetricsStep(w)
    \/ \E w \in Workers : UndoCommitStep(w)

SpecConcUndo == Init /\ [][NextConcUndo]_vars

\* ------------------------------------------------------------- properties

RECURSIVE SumQty(_, _)
SumQty(items, i) ==
    IF i > Len(items) THEN 0 ELSE items[i].quantity + SumQty(items, i + 1)

\* quantity asked of product pid by the first n line items
RECURSIVE Demand(_, _, _)
Demand(items, n, pid) ==
    IF n = 0 THEN 0
    ELSE Demand(items, n - 1, pid)
         + (IF items[n].product_id = pid THEN items[n].quantity ELSE 0)

RECURSIVE SumStock(_, _)
SumStock(st, P) ==
    IF P = {} THEN 0
    ELSE LET p == CHOOSE x \in P : TRUE IN st[p] + SumStock(st, P \ {p})

\* line item i fails validation against the stock levels st: its product is
\* missing, its quantity is not positive, or the stock does not cover it
\* (together with what the earlier items of the request take of the product)
ItemFails(items, i, st) ==
    \/ items[i].product_id \notin DOMAIN st
    \/ items[i].quantity <= 0
    \/ st[items[i].product_id] < Demand(items, i, items[i].product_id)

AnyItemFails(items, st) == \E i \in 1..Len(items) : ItemFails(items, i, st)

\* C1  Atomicity of applySale: a sale request in which some line item fails
\* validation, at any position, is answered with an error and leaves every
\* product's stock_level, the Sale rows, the RetailerMetrics rows and the
\* activity log as they were.
C1_Atomicity ==
    [][(req'.op = "record_sale" /\ AnyItemFails(req'.items, stock))
         => (UNCHANGED dbvars /\ resp'.status = 400)]_vars

\* a two-item request was rejected for its second item after the first had
\* passed and been decremented in the session
C1_Witness ==
    /\ req.op = "record_sale"
    /\ req.total_amount # None
    /\ Len(req.items) = 2
    /\ ~ItemFails(req.items, 1, stock)
    /\ ItemFails(req.items, 2, stock)
    /\ resp.status = 400
    /\ resp.err.msg = "Insufficient stock for product"

\* C2  Non-negative stock: every product has stock_level >= 0 in every state
\* reachable by sales, undos, stock adjustments and disposals.
C2_NonNegativeStock == \A p \in DOMAIN stock : stock[p] >= 0

\* C4  Stock conservation: a successful applySale lowers the summed
\* stock_level by the summed quantity of its line items.
C4_StockConservation ==
    [][(req'.op = "record_sale" /\ resp'.status = 201)
         => (/\ DOMAIN stock' = DOMAIN stock
             /\ SumStock(stock, DOMAIN stock) - SumStock(stock', DOMAIN stock)
                  = SumQty(req'.items, 1))]_vars

\* a sale succeeded whose two line items name the same product
C4_Witness ==
    /\ req.op = "record_sale"
    /\ resp.status = 201
    /\ Len(req.items) = 2
    /\ req.items[1].product_id = req.items[2].product_id

\* C7  Rollback inside applySale: when a step after validation raises, the
\* request is answered with the failure reason and stock, Sale rows,
\* RetailerMetrics rows and activity log are those before the call.
C7_SaleRollback ==
    [][(req'.op = "record_sale" /\ req'.fault # "none")
         => (/\ UNCHANGED dbvars
             /\ resp'.status = 400
             /\ resp'.err.msg \in FaultMsgs)]_vars

\* the commit of an otherwise valid two-item sale failed
C7_Witness ==
    /\ req.op = "record_sale"
    /\ req.fault = "commit"
    /\ Len(req.items) = 2
    /\ ~AnyItemFails(req.items, stock)
    /\ resp.err.msg = "commit failed"

\* C10  Invalid payload: a sale request with an empty line-item list or a
\* null total is rejected with a 400 payload error and changes nothing.
C10_InvalidPayload ==
    [][(req'.op = "record_sale" /\ (req'.items = <<>> \/ req'.total_amount = None))
         => (/\ UNCHANGED dbvars
             /\ resp'.status = 400
             /\ resp'.err.msg \in {"retailer_id, items, total_amount required",
                                   "Invalid sale payload"})]_vars

\* a request with valid line items but no total was rejected
C10_Witness ==
    /\ req.op = "record_sale"
    /\ req.total_amount = None
    /\ req.items # <<>>
    /\ ~AnyItemFails(req.items, stock)
    /\ resp.status = 400
\* C5  Undo is an exact inverse for stock: after a successful undoSale of a
\* sale none of whose products was deleted, every product's stock_level is
\* its level just before the sale plus the net effect of the operations run
\* since, and the Sale row is gone.
C5_UndoInverse ==
    [][(req'.op = "undo_sale" /\ resp'.status = 200)
         => LET id == req'.sale_id
                items == json_loads(sales[id].sale_items_json)
            IN  (\A i \in 1..Len(items) : items[i].product_id \in DOMAIN stock)
                  => (/\ id \notin DOMAIN sales'
                      /\ DOMAIN stock' = DOMAIN stock
                      /\ \A p \in DOMAIN stock : stock'[p] = base[id][p])]_vars

\* a sale, then a restock, then the undo of that sale: the log holds the
\* sale's entry followed by the restock's and no Sale row is left
C5_Witness ==
    /\ req.op = "undo_sale"
    /\ resp.status = 200
    /\ sales = <<>>
    /\ Len(log) = 2
    /\ log[1].action_type = "Sale"
    /\ log[2].action_type = "Restock"
    /\ log[1].product_id = log[2].product_id

\* C8  Rollback inside undoSale: when a step of the undo of an existing
\* sale raises, the answer is an error and the Sale row, the stock levels and
\* the metrics are those before the attempt.
C8_UndoRollback ==
    [][(req'.op = "undo_sale" /\ req'.fault # "none")
         => (/\ UNCHANGED dbvars
             /\ req'.sale_id \in DOMAIN sales
             /\ resp'.status = 500)]_vars

\* the commit of the undo of an existing sale failed
C8_Witness ==
    /\ req.op = "undo_sale"
    /\ req.fault = "commit"
    /\ req.sale_id \in DOMAIN sales
    /\ resp.status = 500

\* C9  Undo of a non-existent sale: undoSale of an id that names no Sale row
\* answers 404 and changes nothing; undoing a sale again right after its
\* undo is such a request.
C9_UndoNotFound ==
    [][/\ (req'.op = "undo_sale" /\ req'.sale_id \notin DOMAIN sales)
            => (UNCHANGED dbvars /\ resp'.status = 404)
       /\ (req'.op = "undo_sale" /\ resp'.status = 200)
            => req'.sale_id \notin DOMAIN sales']_vars

\* an undo was answered 404 after the only sale ever made had been undone
C9_Witness ==
    /\ req.op = "undo_sale"
    /\ resp.status = 404
    /\ sales = <<>>
    /\ \E i \in 1..Len(log) : log[i].action_type = "Sale"
\* C6  Streak transition: for a retailer whose metrics row has
\* last_sale_date = D and current_streak = N, a successful sale on day D
\* leaves the streak at N, on day D+1 makes it N+1, on any other day makes it 1.
C6_StreakTransition ==
    [][(req'.op = "record_sale" /\ resp'.status = 201)
         => LET r == req'.retailer_id
                k == MetricsFirst(metrics, r)
            IN  (k # 0 /\ metrics[k].last_sale_date # None)
                  => LET D == metrics[k].last_sale_date[1]
                         N == metrics[k].current_streak
                         after == metrics'[MetricsFirst(metrics', r)]
                     IN  after.current_streak =
                           (IF today = D THEN N
                            ELSE IF today = D + 1 THEN N + 1
                            ELSE 1)]_vars

\* a sale has taken the streak past every streak the database started with
C6_Witness ==
    /\ req.op = "record_sale"
    /\ resp.status = 201
    /\ metrics[MetricsFirst(metrics, SeedRetailer)].current_streak = MaxStreak + 1
    /\ metrics[MetricsFirst(metrics, SeedRetailer)].last_sale_date = <<today>>
\* C3  No overselling: when two sale requests for ConcQty units each run
\* against a product stocked ConcStock, exactly one succeeds and the other
\* fails with InsufficientStock.
C3_NoOverselling ==
    (\A w \in Workers :
        /\ sess[w].pc = "done"
        /\ sess[w].items = <<[product_id |-> 1, quantity |-> ConcQty]>>)
      => \E w \in Workers :
            /\ sess[w].status = 201
            /\ \A v \in Workers \ {w} :
                  /\ sess[v].status = 400
                  /\ sess[v].err.msg = "Insufficient stock for product"

\* the retailer's daily_quota_usd (0 while the retailer has no metrics row)
Quota(ms, retailer_id) ==
    LET k == MetricsFirst(ms, retailer_id)
    IN  IF k = 0 THEN 0 ELSE ms[k].daily_quota_usd

\* Concurrent sale requests of one retailer: once they have been answered,
\* the quota is the sum of the declared totals of the sales that succeeded.
QuotaAfterConcurrentSales ==
    (\A w \in Workers : sess[w].pc = "done")
      => Quota(metrics, SeedRetailer)
           = MaxTotal * Cardinality({w \in Workers : sess[w].status = 201})

C12_UndoQuotaFloor ==
    [][(req'.op = "undo_sale" /\ resp'.status = 200)
         => LET sale == sales[req'.sale_id]
                r == sale.retailer_id
            IN  MetricsFirst(metrics, r) # 0
                  => /\ Quota(metrics', r) = Max(0, Quota(metrics, r) - sale.total_amount)
                     /\ Quota(metrics', r) >= 0]_vars

\* the undone sale's total was larger than the quota left by a later sale
\* with a total below zero: the floor applied
C12_Witness ==
    /\ req.op = "undo_sale"
    /\ resp.status = 200
    /\ Cardinality(DOMAIN sales) = 1
    /\ \E id \in DOMAIN sales :
          /\ sales[id].total_amount < 0
          /\ Quota(metrics, sales[id].retailer_id) = 0

\* C13  Undo leaves the streak alone: an undoSale, whether it succeeds or
\* fails, changes no metrics row's current_streak or last_sale_date, so after
\* a sale and its undo the streak is the one the sale set.
C13_UndoKeepsStreak ==
    [][req'.op = "undo_sale"
         => /\ Len(metrics') = Len(metrics)
            /\ \A k \in 1..Len(metrics) :
                  /\ metrics'[k].retailer_id = metrics[k].retailer_id
                  /\ metrics'[k].current_streak = metrics[k].current_streak
                  /\ metrics'[k].last_sale_date = metrics[k].last_sale_date]_vars

\* today's sale took the streak past every streak the database started
\* with and was then undone: no Sale row is left and the streak stands
C13_Witness ==
    /\ req.op = "undo_sale"
    /\ resp.status = 200
    /\ sales = <<>>
    /\ metrics[MetricsFirst(metrics, SeedRetailer)].current_streak = MaxStreak + 1
    /\ metrics[MetricsFirst(metrics, SeedRetailer)].last_sale_date = <<today>>
    /\ Quota(metrics, SeedRetailer) = 0

\* C14  Best-effort logging: when appending a "Sale" activity-log entry
\* fails during an otherwise valid applySale, the sale still succeeds: it is
\* answered 201, its Sale row exists, stock is decremented and the metrics
\* are updated.
C14_BestEffortLogging ==
    [][(req'.op = "record_sale" /\ req'.fault = "log")
         => (/\ resp'.status = 201
             /\ resp'.sale_id \in DOMAIN sales'
             /\ stock' # stock
             /\ metrics' # metrics)]_vars

\* C15  Sale immutability: every step leaves each Sale row as it was
\* (retailer_id, total_amount, line-item snapshot), except a successful
\* undoSale of that sale, which removes it.
C15_SaleImmutable ==
    [][\A id \in DOMAIN sales :
          \/ (id \in DOMAIN sales' /\ sales'[id] = sales[id])
          \/ (/\ req'.op = "undo_sale" /\ resp'.status = 200
              /\ req'.sale_id = id /\ id \notin DOMAIN sales')]_vars

\* a product named in a Sale row's snapshot has just been deleted and the
\* row is still there
C15_Witness ==
    /\ req.op = "delete_product"
    /\ resp.status = 200
    /\ \E id \in DOMAIN sales :
          \E it \in Range(json_loads(sales[id].sale_items_json)) :
             /\ it.product_id = req.product_id
             /\ req.product_id \notin DOMAIN stock

\* C16  Sale record content: a successful applySale adds exactly one Sale row;
\* its retailer_id is the request's, its total_amount is the declared total
\* as given (whatever the line items add up to) and its snapshot reads back
\* as the request's line items in input order.
C16_SaleContent ==
    [][(req'.op = "record_sale" /\ resp'.status = 201)
         => LET id == resp'.sale_id
            IN  /\ id \notin DOMAIN sales
                /\ DOMAIN sales' = DOMAIN sales \cup {id}
                /\ \A k \in DOMAIN sales : sales'[k] = sales[k]
                /\ sales'[id].retailer_id = req'.retailer_id
                /\ sales'[id].total_amount = req'.total_amount[1]
                /\ json_loads(sales'[id].sale_items_json) = req'.items]_vars

\* a sale of two different line items was recorded under a declared total
\* that is not the number of units sold
C16_Witness ==
    /\ req.op = "record_sale"
    /\ resp.status = 201
    /\ Len(req.items) = 2
    /\ req.items[1] # req.items[2]
    /\ req.total_amount[1] # SumQty(req.items, 1)
    /\ resp.sale_id \in DOMAIN sales

\* C17  Error status mapping: a response of the sale endpoints carries the
\* status of its error class: 400 for a validation failure (payload,
\* quantity, stock), 404 for a missing sale or product, 500 for an internal
\* failure; 201 only with the sale applied, 200 only with the sale undone.
C17_StatusMapping ==
    resp.op \in {"record_sale", "undo_sale"}
      => /\ resp.err.msg \in {"retailer_id, items, total_amount required",
                               "Invalid sale payload",
                               "Invalid quantity for product",
                               "Insufficient stock for product"}
              => resp.status = 400
         /\ resp.err.msg \in {"Product not found", "Sale not found"}
              => resp.status = 404
         /\ resp.err.msg \in FaultMsgs => resp.status = 500
         /\ resp.status = 201
              => (resp.op = "record_sale" /\ resp.sale_id \in DOMAIN sales)
         /\ resp.status = 200
              => (resp.op = "undo_sale" /\ resp.sale_id \notin DOMAIN sales)

\* the first line item that fails validation against the stock levels st
FirstFailing(items, st) ==
    CHOOSE i \in 1..Len(items) :
        /\ ItemFails(items, i, st)
        /\ \A j \in 1..(i - 1) : ~ItemFails(items, j, st)

\* the error of a failing line item when the product lookup comes first
LookupFirstError(it, st) ==
    IF it.product_id \notin DOMAIN st THEN Err("Product not found", it.product_id)
    ELSE IF it.quantity <= 0 THEN Err("Invalid quantity for product", it.product_id)
    ELSE Err("Insufficient stock for product", it.product_id)

\* the error of a failing line item when the quantity check comes first
QuantityFirstError(it, st) ==
    IF it.quantity <= 0 THEN Err("Invalid quantity for product", it.product_id)
    ELSE IF it.product_id \notin DOMAIN st THEN Err("Product not found", it.product_id)
    ELSE Err("Insufficient stock for product", it.product_id)

\* C18 as claimed: the error returned is that of the first failing line
\* item, with the product lookup (ProductNotFound) before the quantity check
\* (InvalidQuantity) before the stock check (InsufficientStock).
C18_LookupFirst ==
    [][(/\ req'.op = "record_sale"
        /\ req'.total_amount # None
        /\ AnyItemFails(req'.items, stock))
         => resp'.err = LookupFirstError(req'.items[FirstFailing(req'.items, stock)],
                                         stock)]_vars

\* C18  Validation order in applySale (amended): the error returned is that
\* of the first failing line item in input order; within an item the checks
\* run quantity <= 0 (InvalidQuantity), then product lookup
\* (ProductNotFound), then stock (InsufficientStock).
C18_ValidationOrder ==
    [][(/\ req'.op = "record_sale"
        /\ req'.total_amount # None
        /\ AnyItemFails(req'.items, stock))
         => resp'.err = QuantityFirstError(req'.items[FirstFailing(req'.items, stock)],
                                           stock)]_vars

\* the second line item of a request named a missing product with a
\* quantity of zero, after a first item that passed
C18_Witness ==
    /\ req.op = "record_sale"
    /\ req.total_amount # None
    /\ Len(req.items) = 2
    /\ ~ItemFails(req.items, 1, stock)
    /\ req.items[2].product_id \notin DOMAIN stock
    /\ req.items[2].quantity = 0
    /\ resp.err = Err("Invalid quantity for product", req.items[2].product_id)

\* C19  First sale: after a successful applySale the retailer has a metrics
\* row whose last_sale_date is the day of the sale; when the retailer had no
\* row, or a row that had never recorded a sale, its current_streak is 1.
C19_FirstSale ==
    [][(req'.op = "record_sale" /\ resp'.status = 201)
         => LET r == req'.retailer_id
                k == MetricsFirst(metrics, r)
                after == MetricsFirst(metrics', r)
            IN  /\ after # 0
                /\ metrics'[after].last_sale_date = <<today>>
                /\ (k = 0 \/ metrics[k].last_sale_date = None)
                     => metrics'[after].current_streak = 1]_vars

\* the Admin's first sale, on a later day than the database started on, made
\* the Admin's metrics row
C19_Witness ==
    /\ req.op = "record_sale"
    /\ req.retailer_id = AdminUser
    /\ resp.status = 201
    /\ today > 0
    /\ Cardinality(DOMAIN sales) = 1
    /\ Len(metrics) = 2
    /\ metrics[2] = [retailer_id |-> AdminUser, daily_quota_usd |-> MaxTotal,
                     current_streak |-> 1, last_sale_date |-> <<today>>]

\* C20  Undo with deleted products: when a product named in the snapshot of
\* a sale has been deleted since, the undo of the sale answers 200, deletes
\* the Sale row, adds to every product still there the quantity the snapshot
\* records for it, takes the total off the retailer's quota (not below 0) and
\* creates no product.
C20_UndoDeletedProduct ==
    [][(/\ req'.op = "undo_sale"
        /\ req'.fault = "none"
        /\ req'.sale_id \in DOMAIN sales
        /\ \E it \in Range(json_loads(sales[req'.sale_id].sale_items_json)) :
              it.product_id \notin DOMAIN stock)
         => LET sale == sales[req'.sale_id]
                items == json_loads(sale.sale_items_json)
            IN  /\ resp'.status = 200
                /\ resp'.err = NoErr
                /\ req'.sale_id \notin DOMAIN sales'
                /\ DOMAIN stock' = DOMAIN stock
                /\ \A p \in DOMAIN stock :
                      stock'[p] = stock[p] + Demand(items, Len(items), p)
                /\ Quota(metrics', sale.retailer_id)
                     = Max(0, Quota(metrics, sale.retailer_id) - sale.total_amount)]_vars

\* the undo of a two-line sale was answered 200 after the product of its
\* first line had been deleted, and the product of its second line is back
\* at full stock
C20_Witness ==
    /\ req.op = "undo_sale"
    /\ resp.status = 200
    /\ sales = <<>>
    /\ Len(log) = 3
    /\ log[1] = [product_id |-> 0, user_id |-> SeedRetailer, action_type |-> "Sale"]
    /\ log[2].action_type = "Sale"
    /\ log[3].action_type = "DELETE"
    /\ DOMAIN stock = {log[2].product_id}
    /\ stock[log[2].product_id] = MaxStock

\* C21  Sale logging: a successful applySale of N line items appends exactly
\* N log entries tagged "Sale", one per line item in input order, each naming
\* the item's product and the retailer; a failed applySale appends none.
C21_SaleLogging ==
    [][req'.op = "record_sale"
         => IF resp'.status = 201
              THEN /\ Len(log') = Len(log) + Len(req'.items)
                   /\ SubSeq(log', 1, Len(log)) = log
                   /\ \A i \in 1..Len(req'.items) :
                         log'[Len(log) + i] =
                           [product_id |-> req'.items[i].product_id,
                            user_id |-> req'.retailer_id,
                            action_type |-> "Sale"]
              ELSE log' = log]_vars

\* a sale of two lines naming different products was recorded and the log
\* holds its two entries
C21_Witness ==
    /\ req.op = "record_sale"
    /\ resp.status = 201
    /\ Len(req.items) = 2
    /\ req.items[1].product_id # req.items[2].product_id
    /\ Len(log) = 2
    /\ log[1].product_id = req.items[1].product_id
    /\ log[2].product_id = req.items[2].product_id

C23_AdjustStock ==
    [][req'.op = "update_stock"
         => LET p == req'.product_id
            IN  IF p \in DOMAIN stock
                  THEN /\ DOMAIN stock' = DOMAIN stock
                       /\ stock'[p] = Max(0, stock[p] + req'.delta)
                       /\ \A q \in (DOMAIN stock) \ {p} : stock'[q] = stock[q]
                       /\ Len(log') = Len(log) + 1
                  ELSE /\ resp'.err.msg = "Product not found"
                       /\ UNCHANGED dbvars]_vars

\* C24  Metrics frame: a RetailerMetrics row is changed only by an applySale
\* of its retailer or by the undo of a sale of its retailer; every other
\* request (stock adjustment, disposal, product and category requests, user
\* creation, sales and undos of other retailers) leaves it as it is and in
\* place.
C24_MetricsFrame ==
    [][/\ Len(metrics') >= Len(metrics)
       /\ \A k \in 1..Len(metrics) :
             metrics'[k] # metrics[k]
               => \/ /\ req'.op = "record_sale"
                     /\ req'.retailer_id = metrics[k].retailer_id
                  \/ /\ req'.op = "undo_sale"
                     /\ req'.sale_id \in DOMAIN sales
                     /\ sales[req'.sale_id].retailer_id = metrics[k].retailer_id]_vars

\* the Admin's sale was undone while the seeded retailer's row, the first
\* row, holds the quota of its own sale
C24_Witness ==
    /\ req.op = "undo_sale"
    /\ resp.status = 200
    /\ Len(metrics) = 2
    /\ metrics[1].retailer_id = SeedRetailer
    /\ metrics[1].daily_quota_usd = MaxTotal
    /\ metrics[2].retailer_id = AdminUser
    /\ metrics[2].daily_quota_usd = 0
    /\ metrics[2].last_sale_date # None

\* C25  One metrics row per retailer: in every reachable state no two
\* RetailerMetrics rows have the same retailer_id.
C25_OneMetricsRow ==
    \A j, k \in 1..Len(metrics) :
        metrics[j].retailer_id = metrics[k].retailer_id => j = k

\* C27  Retailer must exist: an applySale whose retailer_id names no user is
\* rejected and leaves the Sale rows, the metrics rows and the stock as they
\* were; so every Sale row and every metrics row names a user.
C27_RetailerExists ==
    [][/\ (req'.op = "record_sale" /\ req'.retailer_id \notin DOMAIN users)
            => (resp'.status # 201 /\ UNCHANGED <<sales, metrics, stock>>)
       /\ \A id \in DOMAIN sales' : sales'[id].retailer_id \in DOMAIN users'
       /\ \A k \in 1..Len(metrics') : metrics'[k].retailer_id \in DOMAIN users']_vars

\* C26  Category referential integrity: the deletion of a category that a
\* product refers to is refused and changes nothing, so each product's
\* category_id is null or the id of an existing category.
C26_CategoryIntegrity ==
    [][/\ (/\ req'.op = "delete_category"
           /\ \E p \in DOMAIN category_id : category_id[p] = req'.category_id)
            => (resp'.status # 200 /\ UNCHANGED dbvars)
       /\ \A p \in DOMAIN category_id' :
             category_id'[p] = 0 \/ category_id'[p] \in DOMAIN categories']_vars

\* what is left of the product of line item i once the earlier items of the
\* request have been taken from the stock levels st
Remaining(items, i, st) ==
    st[items[i].product_id] - Demand(items, i - 1, items[i].product_id)

\* C28  Repeated product in one sale: a request whose items all name
\* existing products with positive quantities succeeds exactly when, for
\* every product, the sum of the quantities asked of it is at most its
\* stock_level; otherwise it is rejected, with nothing changed, with
\* InsufficientStock for the first item whose quantity exceeds what the
\* earlier items have left of its product.
C28_CumulativeCheck ==
    [][(/\ req'.op = "record_sale"
        /\ req'.fault = "none"
        /\ req'.retailer_id # 0
        /\ req'.total_amount # None
        /\ req'.items # <<>>
        /\ \A i \in 1..Len(req'.items) :
              /\ req'.items[i].quantity > 0
              /\ req'.items[i].product_id \in DOMAIN stock)
         => LET items == req'.items
            IN  IF \A p \in DOMAIN stock : Demand(items, Len(items), p) <= stock[p]
                  THEN resp'.status = 201
                  ELSE LET i == CHOOSE n \in 1..Len(items) :
                                  /\ items[n].quantity > Remaining(items, n, stock)
                                  /\ \A m \in 1..(n - 1) :
                                        items[m].quantity <= Remaining(items, m, stock)
                       IN  /\ resp'.status = 400
                           /\ resp'.err = Err("Insufficient stock for product",
                                               items[i].product_id)
                           /\ UNCHANGED dbvars]_vars

\* a request of two lines for one product was rejected for its second line:
\* the stock covers either line alone, but not both
C28_Witness ==
    /\ req.op = "record_sale"
    /\ Len(req.items) = 2
    /\ req.items[1].product_id = req.items[2].product_id
    /\ req.items[1].product_id \in DOMAIN stock
    /\ req.items[1].quantity > 0
    /\ req.items[1].quantity <= stock[req.items[1].product_id]
    /\ req.items[2].quantity <= stock[req.items[1].product_id]
    /\ req.items[1].quantity + req.items[2].quantity > stock[req.items[1].product_id]
    /\ resp.status = 400
    /\ resp.err = Err("Insufficient stock for product", req.items[2].product_id)

\* C29  Concurrent undo: of the undo requests for one sale that run
\* concurrently at most one is answered 200, and a request that commits
\* after the Sale row is gone changes neither the stock levels nor the
\* metrics, so the quantities come back and the quota goes down at most
\* once.
C29_ConcurrentUndo ==
    [][/\ \A w \in Workers :
             (/\ sess[w].pc = "ucommit"
              /\ sess'[w].pc = "done"
              /\ sess[w].sale_id \notin DOMAIN sales)
               => (/\ stock' = stock
                   /\ metrics' = metrics
                   /\ sess'[w].status # 200)
       /\ \A v, w \in Workers :
             (/\ v # w
              /\ sess'[v].status = 200
              /\ sess'[w].status = 200
              /\ sess'[v].sale_id # 0)
               => sess'[v].sale_id # sess'[w].sale_id]_vars

\* C30  MFA code lifecycle: a username has at most one active code, and a
\* code sent takes the place of the one before; a verification succeeds
\* exactly when the entered code is the active code and the time is not past
\* its expiry; a success, or an attempt past the expiry, removes the code,
\* and with no code a verification fails; a wrong guess within the time
\* leaves the code as it is; the codes of other usernames are not touched.
C30_MfaLifecycle ==
    [][/\ req'.op = "send_mfa"
            => /\ mfa'[req'.username] = [code |-> req'.code,
                                         expiry |-> now + ExpiryMinutes]
               /\ \A u \in (DOMAIN mfa) \ {req'.username} :
                     u \in DOMAIN mfa' /\ mfa'[u] = mfa[u]
       /\ req'.op = "verify_mfa"
            => LET u == req'.username
                   active == u \in DOMAIN mfa
                   expired == active /\ now > mfa[u].expiry
                   match == active /\ ~expired /\ req'.code = mfa[u].code
               IN  /\ resp'.status = 200 <=> match
                   /\ (match \/ expired) => u \notin DOMAIN mfa'
                   /\ ~active => mfa' = mfa
                   /\ (active /\ ~expired /\ ~match) => mfa' = mfa
                   /\ \A v \in (DOMAIN mfa) \ {u} :
                         v \in DOMAIN mfa' /\ mfa'[v] = mfa[v]]_vars

\* a code was verified in the last minute of its life, while the other
\* username still has its code
C30_Witness ==
    /\ req.op = "verify_mfa"
    /\ resp.status = 200
    /\ now = ExpiryMinutes
    /\ req.username \notin DOMAIN mfa
    /\ DOMAIN mfa # {}
====
